---- MODULE Spec2Model ----
(***************************************************************************)
(* ECRSimulator.sendTransaction of src/src/static/script.js as a state     *)
(* machine: the Send click, the cloud submit to /api/transaction/cimb, the *)
(* setInterval poll of /api/result/cimb with its 60 s deadline, and the    *)
(* native /api/process exchange.                                           *)
(*                                                                         *)
(* JavaScript runs every callback to its next await without interruption,  *)
(* so each action is one such run: a click handler up to its first fetch,  *)
(* the continuation after a fetch resolves, the continuation after a body  *)
(* was read, one firing of the interval timer.                             *)
(*                                                                         *)
(* Time is kept per sendTransaction invocation as Date.now() - startTime   *)
(* (the only way the code reads the clock), in milliseconds, and advances  *)
(* in steps of one timer period.  setInterval follows the HTML timer       *)
(* rules: a callback runs no earlier than one period after the previous    *)
(* one, and may run later.                                                 *)
(***************************************************************************)
EXTENDS Integers, Sequences, FiniteSets, TLC

\* ---------------------------------------------------------------- bounds
\* longest time a reply (headers and body) may take, in timer periods
MaxLatency == 1
\* interval callbacks of one invocation that run one period late
MaxLate == 1
\* entries of the history up to which native transactions are followed
MaxHistory == 2
\* largest N of the mock result endpoint "503 for the first N polls, then 200"
MaxN == 2
\* POST /api/process requests awaiting their reply at one time
MaxProcess == 2
\* POST /api/settings requests awaiting their reply at one time
MaxSaves == 1
\* POST /api/build_request requests awaiting their reply at one time
MaxBuilds == 2
\* longest text typed into the amount field, character by character
MaxLen == 3
\* most zeros of an amount typed as 1 followed by zeros
MaxZeros == 21
\* closures of sendTransaction calls alive at one time
MaxClosures == 3
\* periods a closure is followed for when several calls are alive
MaxElapsed == 3
\* POST /api/connect requests awaiting their reply at one time
MaxConnects == 2
\* most zeros of the whole part of an amount handed to the encoder
MaxAmountZeros == 11

\* ReqData: the widths of szAmount, szInvNo and szCardNo
AmountWidth == 12
InvoiceWidth == 6
CardWidth == 19

\* ------------------------------------------------------------ constants
\* setInterval(..., 1000)
INTERVAL == 1000
\* Date.now() - startTime > 60000
TIMEOUT == 60000

VARIABLES
    mode,            \* this.mode: "native" | "rest"
    requestArea,     \* this.requestArea.value
    requestType,     \* this.requestType
    sendBtnDisabled, \* this.sendBtn.disabled, written by setLoading
    responseArea,    \* this.responseArea: className and value
    session,         \* the closure of the sendTransaction call in cloud mode
    inflight,        \* poll requests to /api/result/cimb awaiting their reply
    reading,         \* poll replies whose body is being read (res.text/res.json)
    endpoint,        \* behaviour of the result endpoint
    transactionHistory, \* this.transactionHistory, newest first
    historyFetch,    \* GET /api/history requests awaiting their reply
    process,         \* POST /api/process requests awaiting their reply
    settings,        \* this.settings
    saving,          \* POST /api/settings requests awaiting their reply
    loading,         \* GET /api/settings requests awaiting their reply
    form,            \* transactionTypeSelect, amountInput, invoiceNoInput
    building,        \* POST /api/build_request requests awaiting their reply
    connection,      \* this.isConnected, the status indicator, the Open
                     \* button, and the /api/connect requests awaiting their reply
    earlier,         \* closures of earlier cloud calls that are still alive
    reqData          \* the buffer Codec.encode returned for the request

\* What the form, the connection and the codec own.
pageVars == <<form, building, connection, loading, reqData>>

vars == <<mode, requestArea, requestType, sendBtnDisabled, responseArea,
          session, inflight, reading, endpoint,
          transactionHistory, historyFetch, process, settings, saving,
          pageVars, earlier>>

\* What saveSettings and the request builder own: sendTransaction and its
\* callbacks write none of them.
formVars == <<mode, requestArea, requestType, endpoint, settings, saving,
              pageVars, earlier>>

\* The history and the native exchange.
nativeVars == <<transactionHistory, historyFetch, process>>

\* ------------------------------------------------------ values and texts
\* A reply body is known by a tag: 0 for the submit reply, and for the reply
\* to the n-th poll of a call a tag that no other reply pending at the same
\* time carries (polls are issued a period apart and answered within
\* MaxLatency periods, so at most MaxLatency + 1 are pending at once).
NoBody == -1

Body(n) == IF n = 0 THEN 0 ELSE 1 + (n % (MaxLatency + 2))

\* A piece of text built by the code: the template it was built from and the
\* values interpolated into it.
Text(fmt, status, body) == [fmt |-> fmt, status |-> status, body |-> body]

NoText == Text("", 0, NoBody)

\* `Error: ${res.status} - ${err}`
ErrorText(status, body) == Text("Error: ${res.status} - ${err}", status, body)

PollingTimeout == Text("Polling timeout", 0, NoBody)

\* error.message of the exception a rejected fetch or JSON.parse throws
ExceptionText(what) == Text(what, 0, NoBody)

\* response.ok: status in the range 200-299
Ok(status) == status >= 200 /\ status <= 299

\* res.status === 503
StillProcessing(status) == status = 503

\* Mutant: the deadline taken in seconds.
ExpiredInSeconds(elapsed) == elapsed > TIMEOUT \div 1000

\* Date.now() - startTime > 60000
Expired(elapsed) == elapsed > TIMEOUT

\* JSON.parse(this.requestArea.value) returns instead of throwing: the text
\* is one of the JSON documents /api/build_request builds
IsJson(text) == text # "" /\ SubSeq(text, 1, 1) = "{"

\* btoa(username + ':' + password) with username = 'VBF4C1MB' and
\* password = 'VFI' + this.settings.edc_serial_number.  Base64 is one-to-one,
\* so the credential is known by the text it encodes.
Btoa(text) == [base64 |-> text]

Auth(edc_serial_number) == Btoa(<<"VBF4C1MB", ":", "VFI", edc_serial_number>>)

NoAuth == Btoa(<<>>)

\* Statuses the submit endpoint and the result endpoint may answer with.
SubmitStatuses == {200, 401, 503}

PollStatuses == {200, 500, 503}

\* What the result endpoint answers to the n-th poll of an invocation.
EndpointStatuses(n) ==
    CASE endpoint.kind = "any" -> PollStatuses
      [] endpoint.kind = "always503" -> {503}
      [] endpoint.kind = "first503" -> IF n <= endpoint.n THEN {503} ELSE {200}

Endpoints ==
    {[kind |-> "any", n |-> 0], [kind |-> "always503", n |-> 0]}
    \cup {[kind |-> "first503", n |-> k] : k \in 0..MaxN}

\* ------------------------------------------------------------- sessions
\* The closure of one sendTransaction call in cloud mode.
\*   pc       "free" | "submit" (awaiting /api/transaction/cimb)
\*            | "polling" (interval timer `poll` active) | "ended" (the call
\*            threw, or clearInterval(poll) ran)
\*   trxId    const {trxId}, 0 before it is extracted
\*   elapsed  Date.now() - startTime
\*   sinceFire, late   the interval timer: time since it was set or last
\*            fired, and how many of its callbacks ran late
\*   res      status of the response held by `let res`, shared by every poll
\*            callback of the call
\*   issued   poll requests issued so far
\*   shown    displayResponse calls made so far, and outcome the last one
\*   auth     const auth, sent with the submit request and with every poll
FreeSession ==
    [pc |-> "free", trxId |-> 0, elapsed |-> 0, sinceFire |-> 0, late |-> 0,
     res |-> 0, issued |-> 0, shown |-> 0, outcome |-> "none", auth |-> NoAuth]

Pending == inflight \cup reading

\* Nothing can run in the closure any more: it is garbage.
Dead == session.pc = "ended" /\ Pending = {}

\* No closure of an earlier call is alive.
Available == session.pc = "free" \/ Dead

\* ------------------------------------------------------ displayResponse
DisplayResponse(response, type) ==
    IF type = "success"
    THEN [className |-> "form-control response-success",
          prefix |-> "",
          value |-> IF requestType = "json"
                    THEN Text("JSON.stringify(response)", 0, response.body)
                    ELSE Text("response.response_hex", 0, response.body)]
    ELSE [className |-> "form-control response-error",
          prefix |-> "ERROR: ",
          value |-> IF response.error # NoText
                    THEN response.error
                    ELSE Text("Unknown error occurred", 0, NoBody)]

ErrorResponse(text) == [error |-> text, body |-> NoBody]

Result(body) == [error |-> NoText, body |-> body]

\* One displayResponse call made by the closure.
Shown(kind) ==
    [session EXCEPT !.shown = @ + 1, !.outcome = kind]

\* ------------------------------------------------------------ validation
\* Values of this.amountInput.value the user may have typed.
AmountInputs == {"", "0", "-5", "abc", "10.00"}

\* parseFloat: a number (in hundredths) or NaN
ParseFloat(text) ==
    CASE text = "10.00" -> [nan |-> FALSE, cents |-> 1000]
      [] text = "0" -> [nan |-> FALSE, cents |-> 0]
      [] text = "-5" -> [nan |-> FALSE, cents |-> -500]
      [] OTHER -> [nan |-> TRUE, cents |-> 0]

\* !amount || parseFloat(amount) <= 0   (any comparison with NaN is false)
InvalidAmount(amount) ==
    amount = "" \/ (~ParseFloat(amount).nan /\ ParseFloat(amount).cents <= 0)

\* type === 'VOID' || type === 'REFUND' || type === 'REPRINT' || type === 'QRIS REFUND':
\* the types for which the invoice number field is shown
RequiresInvoice(type) == type \in {"VOID", "REFUND", "REPRINT", "QRIS REFUND"}

\* ------------------------------------------------- sendTransaction, cloud
\* The click handler up to `await fetch('/api/transaction/cimb')`, or through
\* the catch block when JSON.parse throws.  A new call is followed from the
\* click on once the closure of the previous one is garbage (every reply to
\* its polls has arrived).
SendCloud(amount) ==
    /\ ~sendBtnDisabled
    /\ ~InvalidAmount(amount)
    /\ mode = "rest"
    /\ Available
    /\ IF IsJson(requestArea)
       THEN /\ session' = [FreeSession EXCEPT !.pc = "submit",
                                               !.auth = Auth(settings.edc_serial_number)]
            /\ sendBtnDisabled' = TRUE
            /\ UNCHANGED responseArea
       ELSE /\ responseArea' = DisplayResponse(ErrorResponse(ExceptionText("SyntaxError")), "error")
            /\ sendBtnDisabled' = FALSE
            /\ session' = FreeSession
    /\ UNCHANGED <<formVars, nativeVars, inflight, reading>>

\* Mutant: the error is shown but the handler goes on to start the timer.
SubmitRejectedGoesOn(status) ==
    /\ responseArea' = DisplayResponse(ErrorResponse(ErrorText(status, Body(0))), "error")
    /\ sendBtnDisabled' = FALSE
    /\ session' = [Shown("failed") EXCEPT !.pc = "polling", !.res = status]

\* if (!res.ok) { const err = await res.text(); throw ... } and the catch block
SubmitRejected(status) ==
    /\ responseArea' = DisplayResponse(ErrorResponse(ErrorText(status, Body(0))), "error")
    /\ sendBtnDisabled' = FALSE
    /\ session' = [Shown("failed") EXCEPT !.pc = "ended", !.res = status]

\* const {trxId} = await res.json(); startTime = Date.now(); poll = setInterval(...)
SubmitAccepted(status) ==
    /\ session' = [session EXCEPT !.pc = "polling", !.trxId = 1,
                                  !.elapsed = 0, !.sinceFire = 0, !.res = status]
    /\ UNCHANGED <<responseArea, sendBtnDisabled>>

\* The reply to the submit request arrives.
SubmitReply(status) ==
    /\ session.pc = "submit"
    /\ IF Ok(status) THEN SubmitAccepted(status) ELSE SubmitRejected(status)
    /\ UNCHANGED <<formVars, nativeVars, inflight, reading>>

\* fetch('/api/transaction/cimb') rejects (network failure): the catch block
SubmitError ==
    /\ session.pc = "submit"
    /\ responseArea' = DisplayResponse(ErrorResponse(ExceptionText("Failed to fetch")), "error")
    /\ sendBtnDisabled' = FALSE
    /\ session' = [Shown("failed") EXCEPT !.pc = "ended"]
    /\ UNCHANGED <<formVars, nativeVars, inflight, reading>>

\* ------------------------------------------------------- the poll callback
\* Mutant: the timeout branch without setLoading(false).
TickTimeoutKeepsLoading ==
    /\ session' = [Shown("timeout") EXCEPT !.pc = "ended", !.sinceFire = 0]
    /\ responseArea' = DisplayResponse(ErrorResponse(PollingTimeout), "error")
    /\ UNCHANGED <<sendBtnDisabled, inflight>>

\* if (Date.now() - startTime > 60000) { clearInterval(poll); displayResponse(...);
\*   setLoading(false); return; }
TickTimeout ==
    /\ session' = [Shown("timeout") EXCEPT !.pc = "ended", !.sinceFire = 0]
    /\ responseArea' = DisplayResponse(ErrorResponse(PollingTimeout), "error")
    /\ sendBtnDisabled' = FALSE
    /\ UNCHANGED inflight

\* Mutant: the credential derived again from the settings at every poll.
TickPollDerivesAgain ==
    /\ session' = [session EXCEPT !.issued = @ + 1, !.sinceFire = 0]
    /\ inflight' = inflight \cup {[n |-> session.issued + 1, age |-> 0,
                                    auth |-> Auth(settings.edc_serial_number)]}
    /\ UNCHANGED <<responseArea, sendBtnDisabled>>

\* res = await fetch('/api/result/cimb', ...): the request is issued
TickPoll ==
    /\ session' = [session EXCEPT !.issued = @ + 1, !.sinceFire = 0]
    /\ inflight' = inflight \cup {[n |-> session.issued + 1, age |-> 0,
                                    auth |-> session.auth]}
    /\ UNCHANGED <<responseArea, sendBtnDisabled>>

\* The timer is due: its callback is queued.
Due == session.pc = "polling" /\ session.sinceFire >= INTERVAL

\* The interval timer fires: one run of the callback up to its first await.
Tick ==
    /\ Due
    /\ IF Expired(session.elapsed) THEN TickTimeout ELSE TickPoll
    /\ UNCHANGED <<formVars, nativeVars, reading>>

\* Mutant: clearInterval(poll) before the 503 check.
PollPendingClears(r, status) ==
    /\ session' = [session EXCEPT !.res = status, !.pc = "ended"]
    /\ UNCHANGED reading

\* if (res.status === 503) return;
PollPending(r, status) ==
    /\ session' = [session EXCEPT !.res = status]
    /\ UNCHANGED reading

\* Mutant: the final reply without clearInterval(poll).
PollFinalKeepsTimer(r, status) ==
    /\ session' = [session EXCEPT !.res = status]
    /\ reading' = reading \cup {[n |-> r.n, age |-> r.age, status |-> status]}

\* clearInterval(poll); then await res.text() or await res.json()
PollFinal(r, status) ==
    /\ session' = [session EXCEPT !.res = status, !.pc = "ended"]
    /\ reading' = reading \cup {[n |-> r.n, age |-> r.age, status |-> status]}

\* The reply to a poll request arrives: the callback resumes after
\* `res = await fetch(...)` and runs to its return or its next await.
PollReply(r, status) ==
    /\ r \in inflight
    /\ status \in EndpointStatuses(r.n)
    /\ inflight' = inflight \ {r}
    /\ IF StillProcessing(status) THEN PollPending(r, status) ELSE PollFinal(r, status)
    /\ UNCHANGED <<formVars, nativeVars, sendBtnDisabled, responseArea>>

\* fetch('/api/result/cimb') rejects: the callback's promise rejects, nothing
\* catches it, and the timer stays as it is.
PollError(r) ==
    /\ r \in inflight
    /\ endpoint.kind = "any"
    /\ inflight' = inflight \ {r}
    /\ UNCHANGED <<formVars, nativeVars, sendBtnDisabled, responseArea, session, reading>>

\* displayResponse({error: `Error: ${res.status} - ${err}`}, 'error'): res is the
\* closure's variable as it is now, err the body of this reply
PollRejected(c) ==
    /\ responseArea' = DisplayResponse(ErrorResponse(ErrorText(session.res, Body(c.n))), "error")
    /\ session' = Shown("rejected")
    /\ UNCHANGED historyFetch

\* fetchHistory up to its await: if (this.mode !== 'rest') return; fetch('/api/history')
FetchHistory(n) ==
    IF mode # "rest" THEN historyFetch ELSE historyFetch \cup {[n |-> n, age |-> 0]}

\* displayResponse(result, 'success'); this.fetchHistory()
PollSuccess(c) ==
    /\ responseArea' = DisplayResponse(Result(Body(c.n)), "success")
    /\ session' = Shown("success")
    /\ historyFetch' = FetchHistory(c.n)

\* The body of a final poll reply was read: the callback resumes after
\* `await res.text()` or `await res.json()` and runs to its end.
PollBody(c) ==
    /\ c \in reading
    /\ reading' = reading \ {c}
    /\ IF Ok(c.status) THEN PollSuccess(c) ELSE PollRejected(c)
    /\ sendBtnDisabled' = FALSE
    /\ UNCHANGED <<formVars, transactionHistory, process, inflight>>

\* res.text() or res.json() rejects (the body cannot be read or parsed):
\* the callback's promise rejects and nothing catches it.
PollBodyError(c) ==
    /\ c \in reading
    /\ endpoint.kind = "any"
    /\ reading' = reading \ {c}
    /\ UNCHANGED <<formVars, nativeVars, sendBtnDisabled, responseArea, session, inflight>>

\* ------------------------------------------------------------------ time
Aged(rs) == {[r EXCEPT !.age = @ + INTERVAL] : r \in rs}

\* One timer period passes while a timer runs or a reply is awaited.  A reply
\* takes at most MaxLatency periods; a due callback may be overtaken by the
\* clock once (it then runs one period late), at most MaxLate times per call.
\* The clock of a closure s with its requests `pending` may move on by one
\* period: no reply is later than MaxLatency periods and a due callback is
\* not kept waiting beyond MaxLate periods.
MayAdvance(s, pending) ==
    /\ \A r \in pending : r.age + INTERVAL <= MaxLatency * INTERVAL
    /\ (s.pc = "polling" /\ s.sinceFire >= INTERVAL)
           => s.sinceFire < 2 * INTERVAL /\ s.late < MaxLate

\* The closure's clock one period on.
AgedSession(s, pending) ==
    IF s.pc = "polling"
    THEN [s EXCEPT !.elapsed = @ + INTERVAL,
                   !.sinceFire = @ + INTERVAL,
                   !.late = IF s.sinceFire >= INTERVAL THEN @ + 1 ELSE @]
    ELSE IF pending # {}
    THEN [s EXCEPT !.elapsed = @ + INTERVAL]
    ELSE s

\* A closure of an earlier sendTransaction call that is still alive, one
\* period on.
AgedClosure(c) ==
    [id |-> c.id,
     session |-> AgedSession(c.session, c.inflight \cup c.reading),
     inflight |-> Aged(c.inflight),
     reading |-> Aged(c.reading)]

\* One period passes, for every closure alive.
Advance ==
    /\ \/ session.pc = "polling" \/ Pending # {} \/ historyFetch # {}
       \/ \E c \in earlier : c.session.pc = "polling" \/ c.inflight \cup c.reading # {}
    /\ MayAdvance(session, Pending)
    /\ \A c \in earlier : MayAdvance(c.session, c.inflight \cup c.reading)
    /\ \A h \in historyFetch : h.age + INTERVAL <= MaxLatency * INTERVAL
    /\ session' = AgedSession(session, Pending)
    /\ inflight' = Aged(inflight)
    /\ reading' = Aged(reading)
    /\ earlier' = {AgedClosure(c) : c \in earlier}
    /\ historyFetch' = Aged(historyFetch)
    /\ UNCHANGED <<mode, requestArea, requestType, endpoint, settings, saving,
                   pageVars, transactionHistory, process, sendBtnDisabled,
                   responseArea>>

\* ---------------------------------------------------------------- history
\* One entry of this.transactionHistory.  (id and timestamp are readings of
\* the clock and are left out.)
HistoryItem(transaction_type, amount, status, transaction_id) ==
    [transaction_type |-> transaction_type, amount |-> amount,
     status |-> status, transaction_id |-> transaction_id]

\* Lists GET /api/history may answer with.
ServerHistories ==
    {<<>>,
     <<HistoryItem("SALE", "10.00", "SUCCESS", "T1")>>,
     <<HistoryItem("VOID", "10.00", "SUCCESS", "T2"),
       HistoryItem("SALE", "10.00", "SUCCESS", "T1")>>}

\* if (response.ok) { this.transactionHistory = await response.json(); ... }
HistoryReply(h, ok, list) ==
    /\ h \in historyFetch
    /\ historyFetch' = historyFetch \ {h}
    /\ transactionHistory' = IF ok THEN list ELSE transactionHistory
    /\ UNCHANGED <<formVars, process, sendBtnDisabled, responseArea, session,
                   inflight, reading>>

\* Mutant: push instead of unshift.
AddToHistoryPush(transaction_type, amount, response) ==
    transactionHistory \o
    <<HistoryItem(transaction_type, amount,
                  IF response.status # "" THEN response.status ELSE "SUCCESS",
                  IF response.trxId # "" THEN response.trxId ELSE "N/A")>>

\* addToHistory: this.transactionHistory.unshift(historyItem)
AddToHistory(transaction_type, amount, response) ==
    <<HistoryItem(transaction_type, amount,
                  IF response.status # "" THEN response.status ELSE "SUCCESS",
                  IF response.trxId # "" THEN response.trxId ELSE "N/A")>>
    \o transactionHistory

\* ------------------------------------------------ sendTransaction, native
\* Values of this.transactionTypeSelect and this.invoiceNoInput at the click.
TransactionTypes == {"SALE", "VOID"}

InvoiceInputs == {"", "000123"}

\* The response code of the payload a result object carries: 0 for "00"
\* (approved), any other two-digit value for a declined transaction.
ResponseCodes == {0, 5}

\* Result objects a 2xx /api/process reply may carry (the payload is known by
\* its response code), and the error fields a non-2xx reply may carry ("" for
\* a missing field).
ProcessResults ==
    {[error |-> NoText, body |-> code, status |-> st, trxId |-> id] :
        code \in ResponseCodes, st \in {"", "APPROVED"}, id \in {"", "T1"}}

ProcessErrors == {NoText, Text("result.error", 0, 0)}

\* Each fetch('/api/process') is a request of its own, also when its body
\* equals that of another pending one: it is told apart by a number no other
\* pending request carries.
NewProcessId == CHOOSE i \in 0..Cardinality(process) : \A p \in process : p.id # i

\* The click handler up to `await fetch('/api/process')`.  The history is
\* followed up to MaxHistory entries, the requests up to MaxProcess pending.
SendNative(transaction_type, amount, invoiceNo) ==
    /\ ~sendBtnDisabled
    /\ ~InvalidAmount(amount)
    /\ mode # "rest"
    /\ Len(transactionHistory) < MaxHistory
    /\ Cardinality(process) < MaxProcess
    /\ sendBtnDisabled' = TRUE
    /\ process' = process \cup {[id |-> NewProcessId,
                                 transaction_type |-> transaction_type,
                                 amount |-> amount,
                                 invoiceNo |-> IF invoiceNo # "" THEN invoiceNo ELSE "null",
                                 state |-> "Idle", calls |-> <<>>, error |-> ""]}
    /\ UNCHANGED <<formVars, transactionHistory, historyFetch, responseArea,
                   session, inflight, reading>>

\* Mutant: a payload whose response code is not "00" is thrown as an error.
ProcessReplyThrowsDeclined(p, result) ==
    /\ p \in process
    /\ process' = process \ {p}
    /\ responseArea' = IF result.body = 0
                        THEN DisplayResponse(result, "success")
                        ELSE DisplayResponse(ErrorResponse(result.error), "error")
    /\ transactionHistory' = AddToHistory(p.transaction_type, p.amount, result)
    /\ sendBtnDisabled' = FALSE
    /\ UNCHANGED <<formVars, historyFetch, session, inflight, reading>>

\* const result = await res.json(); displayResponse(result, 'success');
\* addToHistory(transaction_type, amount, result); setLoading(false)
ProcessReply(p, result) ==
    /\ p \in process
    /\ process' = process \ {p}
    /\ responseArea' = DisplayResponse(result, "success")
    /\ transactionHistory' = AddToHistory(p.transaction_type, p.amount, result)
    /\ sendBtnDisabled' = FALSE
    /\ UNCHANGED <<formVars, historyFetch, session, inflight, reading>>

\* Mutant: the failure path records the transaction as well.
ProcessFailedAppends(p, error) ==
    /\ p \in process
    /\ process' = process \ {p}
    /\ responseArea' = DisplayResponse(ErrorResponse(error), "error")
    /\ transactionHistory' = AddToHistory(p.transaction_type, p.amount,
                                          [status |-> "", trxId |-> ""])
    /\ sendBtnDisabled' = FALSE
    /\ UNCHANGED <<formVars, historyFetch, session, inflight, reading>>

\* if (!res.ok) throw new Error(result.error), or fetch or res.json() rejects:
\* the catch block
ProcessFailed(p, error) ==
    /\ p \in process
    /\ process' = process \ {p}
    /\ responseArea' = DisplayResponse(ErrorResponse(error), "error")
    /\ sendBtnDisabled' = FALSE
    /\ UNCHANGED <<formVars, transactionHistory, historyFetch, session, inflight, reading>>

\* ------------------------------------------- the local orchestrator
\* What serves POST /api/process: Idle -> Encoding -> Sending ->
\* AwaitingResponse -> {Decoded | Failed}.  Each pending request carries the
\* state of its invocation, the codec and transport calls made for it so far,
\* and the error it failed with.
Positive(amount) == ~ParseFloat(amount).nan /\ ParseFloat(amount).cents > 0

\* 1. Validate: amount > 0; invoice number present when required by type.
ValidRequest(p) ==
    /\ Positive(p.amount)
    /\ RequiresInvoice(p.transaction_type) => p.invoiceNo # "null"

\* The invocation of p moves to `state` after making `call` (none when "").
Moved(p, state, call, error) ==
    [p EXCEPT !.state = state,
              !.calls = IF call = "" THEN @ ELSE Append(@, call),
              !.error = error]

LocalStep(p, q) ==
    /\ process' = (process \ {p}) \cup {q}
    /\ UNCHANGED <<formVars, transactionHistory, historyFetch, sendBtnDisabled,
                   responseArea, session, inflight, reading>>

LocalValidate(p) ==
    /\ p \in process /\ p.state = "Idle"
    /\ LocalStep(p, IF ValidRequest(p) THEN Moved(p, "Encoding", "", "")
                                      ELSE Moved(p, "Failed", "", "ValidationError"))

\* 2. Encoding: call Codec.encode; on EncodingError go to Failed.
LocalEncode(p, ok) ==
    /\ p \in process /\ p.state = "Encoding"
    /\ LocalStep(p, IF ok THEN Moved(p, "Sending", "encode", "")
                          ELSE Moved(p, "Failed", "encode", "EncodingError"))

\* Mutant: a failed send is noted but the invocation goes on to receive.
LocalSendGoesOn(p, ok) ==
    /\ p \in process /\ p.state = "Sending"
    /\ LocalStep(p, IF ok THEN Moved(p, "AwaitingResponse", "send", "")
                          ELSE Moved(p, "AwaitingResponse", "send", "TransportError"))

\* 3. Sending: call Transport.send; on TransportError go to Failed.
LocalSend(p, ok) ==
    /\ p \in process /\ p.state = "Sending"
    /\ LocalStep(p, IF ok THEN Moved(p, "AwaitingResponse", "send", "")
                          ELSE Moved(p, "Failed", "send", "TransportError"))

\* 4. AwaitingResponse: call Transport.receive; on timeout go to Failed.
LocalReceive(p, ok) ==
    /\ p \in process /\ p.state = "AwaitingResponse"
    /\ p.calls[Len(p.calls)] = "send"
    /\ LocalStep(p, IF ok THEN Moved(p, "AwaitingResponse", "receive", p.error)
                          ELSE Moved(p, "Failed", "receive", "ResponseTimeout"))

\* 5. call Codec.decode; on DecodingError go to Failed, otherwise Decoded.
LocalDecode(p, ok) ==
    /\ p \in process /\ p.state = "AwaitingResponse"
    /\ p.calls[Len(p.calls)] = "receive"
    /\ LocalStep(p, IF ok THEN Moved(p, "Decoded", "decode", p.error)
                          ELSE Moved(p, "Failed", "decode", "DecodingError"))

\* ------------------------------------------------------------ formatAmount
\* The i-th character of a text.
Char(text, i) == SubSeq(text, i, i)

\* value.replace(/[^0-9.]/g, '')
RECURSIVE Replace(_)
Replace(text) ==
    IF text = "" THEN ""
    ELSE (IF Char(text, 1) \in {"0", "1", "2", "3", "4", "5", "6", "7", "8", "9", "."}
          THEN Char(text, 1) ELSE "")
         \o Replace(SubSeq(text, 2, Len(text)))

\* Where the first "." of a text is, Len + 1 when it has none.
RECURSIVE PointAt(_)
PointAt(text) ==
    IF text = "" \/ Char(text, 1) = "." THEN 1
    ELSE 1 + PointAt(SubSeq(text, 2, Len(text)))

\* isNaN(value) for a text of digits and points: it is a number when it has
\* a digit and no second point
IsNaN(value) ==
    LET point == PointAt(value)
        rest == SubSeq(value, point + 1, Len(value))
    IN \/ PointAt(rest) <= Len(rest)
       \/ Len(value) = (IF point <= Len(value) THEN 1 ELSE 0)

\* k zeros
RECURSIVE Zeros(_)
Zeros(k) == IF k = 0 THEN "" ELSE "0" \o Zeros(k - 1)

\* Nothing encoded yet.
NoReqData == [error |-> "", bytes |-> ""]

\* A numeral without its leading zeros ("0" for zero).
RECURSIVE Canonical(_)
Canonical(digits) ==
    IF digits = "" THEN "0"
    ELSE IF Char(digits, 1) = "0" /\ Len(digits) > 1
    THEN Canonical(SubSeq(digits, 2, Len(digits)))
    ELSE digits

\* A numeral without its trailing zeros.
RECURSIVE Significant(_)
Significant(digits) ==
    IF digits # "" /\ Char(digits, Len(digits)) = "0"
    THEN Significant(SubSeq(digits, 1, Len(digits) - 1))
    ELSE digits

\* String(x) for a whole number x >= 10^21: exponential notation
Exponential(whole) ==
    LET rest == Significant(SubSeq(whole, 2, Len(whole)))
    IN Char(whole, 1) \o (IF rest = "" THEN "" ELSE "." \o rest)
       \o "e+" \o ToString(Len(whole) - 1)

\* parseFloat(value).toFixed(2) for a text that is a number.  Two decimals
\* are kept (every further digit of the amounts followed here is below 5, so
\* the value is never rounded up); from 10^21 on toFixed returns String(x).
ToFixed2(value) ==
    LET point == PointAt(value)
        whole == Canonical(SubSeq(value, 1, point - 1))
        cents == SubSeq(SubSeq(value, point + 1, Len(value)) \o "00", 1, 2)
    IN IF Len(whole) > 21 THEN Exponential(whole) ELSE whole \o "." \o cents

\* formatAmount: the new value of this.amountInput
FormatAmount(amount) ==
    LET value == Replace(amount)
    IN IF value # "" /\ ~IsNaN(value) THEN ToFixed2(value) ELSE amount

\* ----------------------------------------------------------- updateRequest
\* A body whose first key would be spelled transactionType.
BuildBodyCamelCase(f) ==
    [transactionType |-> f.transaction_type,
     amount |-> IF f.amount # "" THEN f.amount ELSE "0.00",
     invoiceNo |-> f.invoiceNo]

\* JSON.stringify({transaction_type, amount, invoiceNo}) with
\* amount = this.amountInput.value || '0.00'
BuildBody(f) ==
    [transaction_type |-> f.transaction_type,
     amount |-> IF f.amount # "" THEN f.amount ELSE "0.00",
     invoiceNo |-> f.invoiceNo]

\* Each fetch('/api/build_request') is a request of its own.
NewBuildId == CHOOSE i \in 0..Cardinality(building) : \A b \in building : b.id # i

\* updateRequest up to its await, for the form as it is after the event
UpdateRequest(f) == building \cup {[id |-> NewBuildId, body |-> BuildBody(f)]}

\* One event of the form (change of the type, input of the amount or of the
\* invoice number): the field has its new value and updateRequest runs.
FormEvent(f) ==
    /\ Cardinality(building) < MaxBuilds
    /\ form' = f
    /\ building' = UpdateRequest(f)
    /\ UNCHANGED <<mode, requestArea, requestType, endpoint, settings, saving,
                   connection, loading, reqData, earlier, nativeVars,
                   sendBtnDisabled, responseArea, session, inflight, reading>>

TypeChange(type) == type # form.transaction_type /\ FormEvent([form EXCEPT !.transaction_type = type])

AmountInput(amount) == amount # form.amount /\ FormEvent([form EXCEPT !.amount = amount])

InvoiceInput(invoiceNo) == invoiceNo # form.invoiceNo /\ FormEvent([form EXCEPT !.invoiceNo = invoiceNo])

\* blur of the amount field: formatAmount, which ends with updateRequest
AmountBlur == FormEvent([form EXCEPT !.amount = FormatAmount(form.amount)])

\* result.request as /api/build_request builds it for a body: a JSON
\* document or a hex text, either one telling the bodies apart
Request(body, type) ==
    (IF type = "json" THEN "{" ELSE "02") \o body.transaction_type \o ","
    \o body.amount \o "," \o body.invoiceNo \o (IF type = "json" THEN "}" ELSE "03")

\* const result = await response.json(); this.requestArea.value = result.request;
\* this.requestType = result.type
BuildReply(b, type) ==
    /\ b \in building
    /\ building' = building \ {b}
    /\ requestArea' = Request(b.body, type)
    /\ requestType' = type
    /\ UNCHANGED <<mode, endpoint, settings, saving, form,
                   connection, loading, reqData, earlier, nativeVars,
                   sendBtnDisabled, responseArea, session, inflight, reading>>

\* fetch or response.json() rejects: this.requestArea.value = 'Error generating request'
BuildError(b) ==
    /\ b \in building
    /\ building' = building \ {b}
    /\ requestArea' = "Error generating request"
    /\ UNCHANGED <<mode, requestType, endpoint, settings, saving, form,
                   connection, loading, reqData, earlier, nativeVars,
                   sendBtnDisabled, responseArea, session, inflight, reading>>

\* ------------------------------------------------------------ saveSettings
\* Values of this.edcSerialNumberInput.value.
Serials == {"", "E1"}

\* The settings object saveSettings builds from the form (the fields
\* sendTransaction reads).
SettingsForms ==
    {[enable_rest_api |-> rest, edc_serial_number |-> serial] :
        rest \in BOOLEAN, serial \in Serials}

\* this.mode = this.settings.enable_rest_api ? 'rest' : 'native'
ModeOf(s) == IF s.enable_rest_api THEN "rest" ELSE "native"

\* The click on Save up to `await fetch('/api/settings', {method: 'POST', ...})`.
SaveSettings(posted) ==
    /\ Cardinality(saving) < MaxSaves
    /\ saving' = saving \cup {posted}
    /\ UNCHANGED <<mode, requestArea, requestType, endpoint, settings, nativeVars,
                   sendBtnDisabled, responseArea, session, inflight, reading,
                   pageVars, earlier>>

\* A reply handler that stores the settings and leaves the mode as it was.
SettingsReplyKeepsMode(s, ok) ==
    /\ s \in saving
    /\ saving' = saving \ {s}
    /\ settings' = IF ok THEN s ELSE settings
    /\ UNCHANGED <<mode, requestArea, requestType, endpoint, nativeVars,
                   sendBtnDisabled, responseArea, session, inflight, reading,
                   pageVars, earlier>>

\* if (response.ok) { this.settings = settings; this.mode = ...; } else a
\* notification only; the same when fetch rejects.
SettingsReply(s, ok) ==
    /\ s \in saving
    /\ saving' = saving \ {s}
    /\ settings' = IF ok THEN s ELSE settings
    /\ mode' = IF ok THEN ModeOf(s) ELSE mode
    /\ UNCHANGED <<requestArea, requestType, endpoint, nativeVars,
                   sendBtnDisabled, responseArea, session, inflight, reading,
                   pageVars, earlier>>

\* ---------------------------------------------------------- specification
\* this.requestArea.value and this.requestType: as loaded, or as the last
\* /api/build_request reply left them
BuiltRequests == {<<"", "undefined">>, <<"{request}", "json">>, <<"020A", "hex">>}

NoResponse == [className |-> "form-control", prefix |-> "", value |-> NoText]

\* The form as the page shows it first, nothing typed.
EmptyForm == [transaction_type |-> "SALE", amount |-> "", invoiceNo |-> ""]

\* this.isConnected = false; updateStatus(): OFFLINE, button Open
Offline ==
    [isConnected |-> FALSE, statusText |-> "OFFLINE", openBtn |-> "Open",
     pending |-> {}]

\* The page once the constructor's calls have resolved and a request was built.
InitPage ==
    /\ building = {}
    /\ connection = Offline
    /\ loading = {}
    /\ earlier = {}
    /\ reqData = NoReqData
    /\ settings \in SettingsForms
    /\ mode = ModeOf(settings)
    /\ saving = {}
    /\ \E built \in BuiltRequests : requestArea = built[1] /\ requestType = built[2]
    /\ sendBtnDisabled = FALSE
    /\ responseArea = NoResponse
    /\ session = FreeSession
    /\ inflight = {}
    /\ reading = {}
    /\ endpoint \in Endpoints
    /\ transactionHistory = <<>>
    /\ historyFetch = {}
    /\ process = {}

Init == form = EmptyForm /\ InitPage

\* The environment's part of each step: which reply arrives, with what.
PollReplyArrives == \E r \in inflight, status \in PollStatuses : PollReply(r, status)

PollFetchFails == \E r \in inflight : PollError(r)

PollBodyRead == \E c \in reading : PollBody(c)

PollBodyFails == \E c \in reading : PollBodyError(c)

HistoryReplyArrives ==
    \E h \in historyFetch, ok \in BOOLEAN, list \in ServerHistories : HistoryReply(h, ok, list)

ProcessReplyArrives == \E p \in process, result \in ProcessResults : ProcessReply(p, result)

ProcessFails ==
    \E p \in process, error \in ProcessErrors \cup {ExceptionText("Failed to fetch")} :
        ProcessFailed(p, error)

ProcessApproved ==
    \E p \in process :
        ProcessReply(p, [error |-> NoText, body |-> 0, status |-> "APPROVED", trxId |-> "T1"])

SettingsReplyArrives == \E s \in saving, ok \in BOOLEAN : SettingsReply(s, ok)

Next ==
    \/ \E amount \in AmountInputs : SendCloud(amount)
    \/ \E status \in SubmitStatuses : SubmitReply(status)
    \/ SubmitError
    \/ Tick
    \/ PollReplyArrives
    \/ PollFetchFails
    \/ PollBodyRead
    \/ PollBodyFails
    \/ Advance
    \/ HistoryReplyArrives
    \/ \E transaction_type \in TransactionTypes, amount \in AmountInputs,
          invoiceNo \in InvoiceInputs : SendNative(transaction_type, amount, invoiceNo)
    \/ ProcessReplyArrives
    \/ ProcessFails

\* The simulator with the settings as they were loaded.
Spec == Init /\ [][Next]_vars

\* ------------------------------------------------------------------------
\* The poll loop against a result endpoint that answers 503 to every poll,
\* with the scheduling the browser's event loop gives: a due timer callback
\* runs, a reply that is awaited arrives, and time passes.
InitAlways503 ==
    /\ Init
    /\ mode = "rest"
    /\ IsJson(requestArea)
    /\ endpoint.kind = "always503"

NextAlways503 ==
    \/ \E amount \in AmountInputs : SendCloud(amount)
    \/ \E status \in SubmitStatuses : SubmitReply(status)
    \/ SubmitError
    \/ Tick
    \/ PollReplyArrives
    \/ Advance

SpecAlways503 ==
    /\ InitAlways503
    /\ [][NextAlways503]_vars
    /\ WF_vars(Tick)
    /\ WF_vars(PollReplyArrives)
    /\ WF_vars(Advance)

\* ------------------------------------------------------------------------
\* The simulator with the settings saved again at any moment (the mode and
\* the serial number change while transactions are pending), against a result
\* endpoint that answers 503 to the first N polls and 200 afterwards.
InitSettings ==
    /\ Init
    /\ IsJson(requestArea)
    /\ endpoint.kind = "first503"

NextSettings ==
    \/ SendCloud("10.00")
    \/ \E status \in SubmitStatuses : SubmitReply(status)
    \/ Tick
    \/ PollReplyArrives
    \/ PollBodyRead
    \/ Advance
    \/ HistoryReplyArrives
    \/ SendNative("SALE", "10.00", "")
    \/ ProcessApproved
    \/ \E posted \in SettingsForms : SaveSettings(posted)
    \/ SettingsReplyArrives

SpecSettings == InitSettings /\ [][NextSettings]_vars

\* ------------------------------------------------------------------------
\* One cloud call and the native calls, followed from the click to the end
\* under the scheduling of the browser: a due timer callback runs, every
\* awaited fetch and every body read settles (one way or the other), and
\* time passes.
FirstSendCloud == session.pc = "free" /\ \E amount \in AmountInputs : SendCloud(amount)

SubmitSettles == (\E status \in SubmitStatuses : SubmitReply(status)) \/ SubmitError

PollSettles == PollReplyArrives \/ PollFetchFails

BodySettles == PollBodyRead \/ PollBodyFails

ProcessSettles == ProcessReplyArrives \/ ProcessFails

NextResolve ==
    \/ FirstSendCloud
    \/ \E status \in SubmitStatuses : SubmitReply(status)
    \/ SubmitError
    \/ Tick
    \/ PollReplyArrives
    \/ PollFetchFails
    \/ PollBodyRead
    \/ PollBodyFails
    \/ Advance
    \/ HistoryReplyArrives
    \/ \E transaction_type \in TransactionTypes, amount \in AmountInputs,
          invoiceNo \in InvoiceInputs : SendNative(transaction_type, amount, invoiceNo)
    \/ ProcessReplyArrives
    \/ ProcessFails

SpecResolve ==
    /\ Init
    /\ [][NextResolve]_vars
    /\ WF_vars(SubmitSettles)
    /\ WF_vars(Tick)
    /\ WF_vars(PollSettles)
    /\ WF_vars(BodySettles)
    /\ WF_vars(Advance)
    /\ WF_vars(HistoryReplyArrives)
    /\ WF_vars(ProcessSettles)

\* ------------------------------------------------------------------------
\* Native transactions with the local orchestrator serving each request: the
\* reply is sent when the invocation has reached Decoded or Failed.
InitLocal == Init /\ mode = "native"

LocalValidates == \E p \in process : LocalValidate(p)

LocalEncodes == \E p \in process, ok \in BOOLEAN : LocalEncode(p, ok)

LocalSends == \E p \in process, ok \in BOOLEAN : LocalSend(p, ok)

LocalReceives == \E p \in process, ok \in BOOLEAN : LocalReceive(p, ok)

LocalDecodes == \E p \in process, ok \in BOOLEAN : LocalDecode(p, ok)

LocalDecoded ==
    \E p \in process, result \in ProcessResults :
        p.state = "Decoded" /\ ProcessReply(p, result)

LocalFailed ==
    \E p \in process : p.state = "Failed" /\ ProcessFailed(p, Text("result.error", 0, 0))

NextLocal ==
    \/ \E transaction_type \in TransactionTypes, amount \in AmountInputs,
          invoiceNo \in InvoiceInputs : SendNative(transaction_type, amount, invoiceNo)
    \/ LocalValidates
    \/ LocalEncodes
    \/ LocalSends
    \/ LocalReceives
    \/ LocalDecodes
    \/ LocalDecoded
    \/ LocalFailed

SpecLocal == InitLocal /\ [][NextLocal]_vars

\* ------------------------------------------- several sendTransaction calls
\* Each cloud call has its own closure (poll, startTime, res, auth).  The
\* variables session, inflight and reading hold the closure whose callbacks
\* are followed; `earlier` holds the other closures that are still alive.
ThisClosure(id) == [id |-> id, session |-> session, inflight |-> inflight, reading |-> reading]

NewClosureId == CHOOSE i \in 0..Cardinality(earlier) : \A c \in earlier : c.id # i

\* A click on Send while the closure of an earlier call still has replies to
\* come (one of its callbacks has enabled the button): that closure lives on
\* and the new call gets its own.
SendCloudAgain(amount) ==
    /\ ~sendBtnDisabled
    /\ ~InvalidAmount(amount)
    /\ mode = "rest"
    /\ ~Available
    /\ Cardinality(earlier) < MaxClosures - 1
    /\ IF IsJson(requestArea)
       THEN /\ earlier' = earlier \cup {ThisClosure(NewClosureId)}
            /\ session' = [FreeSession EXCEPT !.pc = "submit",
                                               !.auth = Auth(settings.edc_serial_number)]
            /\ inflight' = {}
            /\ reading' = {}
            /\ sendBtnDisabled' = TRUE
            /\ UNCHANGED responseArea
       ELSE /\ responseArea' = DisplayResponse(ErrorResponse(ExceptionText("SyntaxError")), "error")
            /\ sendBtnDisabled' = FALSE
            /\ UNCHANGED <<earlier, session, inflight, reading>>
    /\ UNCHANGED <<mode, requestArea, requestType, endpoint, settings, saving,
                   pageVars, nativeVars>>

\* The callbacks of another closure are followed: the one followed so far is
\* kept if anything of it can still run.  Nothing of the page changes.
Follow(c) ==
    /\ c \in earlier
    /\ session' = c.session
    /\ inflight' = c.inflight
    /\ reading' = c.reading
    /\ earlier' = (earlier \ {c}) \cup (IF Available THEN {} ELSE {ThisClosure(c.id)})
    /\ UNCHANGED <<mode, requestArea, requestType, endpoint, settings, saving,
                   pageVars, nativeVars, sendBtnDisabled, responseArea>>

FollowEarlier == \E c \in earlier : Follow(c)

\* setInterval timers that have not been cleared
ActiveTimers ==
    (IF session.pc = "polling" THEN 1 ELSE 0)
    + Cardinality({c \in earlier : c.session.pc = "polling"})

InitTimers ==
    /\ Init
    /\ IsJson(requestArea)
    /\ endpoint.kind = "first503"
    /\ settings.enable_rest_api
    /\ settings.edc_serial_number = "E1"

\* One period passes, within the first MaxElapsed periods of every closure
TimePasses ==
    /\ session.elapsed < MaxElapsed * INTERVAL
    /\ \A c \in earlier : c.session.elapsed < MaxElapsed * INTERVAL
    /\ Advance

\* GET /api/history answers with the (empty) history of the service
HistoryLoaded == \E h \in historyFetch : HistoryReply(h, TRUE, <<>>)

NextTimers ==
    \/ SendCloud("10.00")
    \/ SendCloudAgain("10.00")
    \/ \E status \in SubmitStatuses : SubmitReply(status)
    \/ Tick
    \/ PollReplyArrives
    \/ PollBodyRead
    \/ TimePasses
    \/ HistoryLoaded
    \/ FollowEarlier

SpecTimers == InitTimers /\ [][NextTimers]_vars

\* ------------------------------------------------------- the ReqData codec
\* encode(req) as the specification of the codec has it; the codec itself
\* serves /api/process and /api/build_request.
\* The transaction types and the value of the type byte (hex digit).
TypeCodes ==
    [SALE |-> "1", INSTALLMENT |-> "2", VOID |-> "3", REFUND |-> "4"]

\* amount x 100 as decimal digits, for an amount with two fractional digits
MinorUnits(amount) ==
    Canonical(SubSeq(amount, 1, Len(amount) - 3) \o SubSeq(amount, Len(amount) - 1, Len(amount)))

\* The invoice number as decimal digits (none given: zero)
InvoiceDigits(invoiceNo) == Canonical(invoiceNo)

RECURSIVE Spaces(_)
Spaces(k) == IF k = 0 THEN "" ELSE " " \o Spaces(k - 1)

\* ASCII digits, zero-padded to the width of the field
ZeroPadded(digits, width) == Zeros(width - Len(digits)) \o digits

\* A field cut to its width, keeping the low digits.
Truncated(digits, width) ==
    IF Len(digits) > width
    THEN SubSeq(digits, Len(digits) - width + 1, Len(digits))
    ELSE ZeroPadded(digits, width)

\* An encoder that cuts a field that is too long instead of failing.
EncodeTruncating(req) ==
    IF req.transaction_type \notin DOMAIN TypeCodes
    THEN [error |-> "InvalidTransactionType", bytes |-> ""]
    ELSE [error |-> "",
          bytes |-> TypeCodes[req.transaction_type]
                    \o Truncated(MinorUnits(req.amount), AmountWidth)
                    \o Truncated(InvoiceDigits(req.invoiceNo), InvoiceWidth)
                    \o Spaces(CardWidth)]

\* encode(req): InvalidTransactionType if the type is not in the enumeration,
\* FieldOverflow if amount x 100 or the invoice number exceeds its width,
\* else type byte, amount, invoice number and the card field (all padding:
\* the page sends no card number)
Encode(req) ==
    IF req.transaction_type \notin DOMAIN TypeCodes
    THEN [error |-> "InvalidTransactionType", bytes |-> ""]
    ELSE IF \/ Len(MinorUnits(req.amount)) > AmountWidth
            \/ Len(InvoiceDigits(req.invoiceNo)) > InvoiceWidth
    THEN [error |-> "FieldOverflow", bytes |-> ""]
    ELSE [error |-> "",
          bytes |-> TypeCodes[req.transaction_type]
                    \o ZeroPadded(MinorUnits(req.amount), AmountWidth)
                    \o ZeroPadded(InvoiceDigits(req.invoiceNo), InvoiceWidth)
                    \o Spaces(CardWidth)]

\* The requests handed to the encoder
EncodeRequests ==
    [transaction_type : DOMAIN TypeCodes \cup {"UNKNOWN"},
     amount : {"10.00", "0.01"} \cup {"1" \o Zeros(k) \o ".00" : k \in 0..MaxAmountZeros},
     invoiceNo : {"", "000123", "999999", "1234567"}]

InitEncode ==
    /\ form \in EncodeRequests
    /\ InitPage
    /\ requestArea = ""
    /\ endpoint.kind = "any"
    /\ ~settings.enable_rest_api
    /\ settings.edc_serial_number = ""

\* The codec encodes the request
EncodeRequest ==
    /\ reqData = NoReqData
    /\ reqData' = Encode(form)
    /\ UNCHANGED <<mode, requestArea, requestType, endpoint, settings, saving, form,
                   building, connection, loading, earlier, nativeVars,
                   sendBtnDisabled, responseArea, session, inflight, reading>>

NextEncode == EncodeRequest

SpecEncode == InitEncode /\ [][NextEncode]_vars

\* ---------------------------------------------------------- toggleConnection
\* updateStatus: the indicator and the button follow this.isConnected
UpdateStatus(isConnected) ==
    [isConnected |-> isConnected,
     statusText |-> IF isConnected THEN "ONLINE" ELSE "OFFLINE",
     openBtn |-> IF isConnected THEN "Close" ELSE "Open",
     pending |-> connection.pending]

NewConnectId ==
    CHOOSE i \in 0..Cardinality(connection.pending) : \A c \in connection.pending : c.id # i

connectVars ==
    <<mode, requestArea, requestType, endpoint, settings, saving, form, building,
      loading, reqData, earlier, nativeVars, sendBtnDisabled, responseArea,
      session, inflight, reading>>

\* toggleConnection up to its await: POST /api/connect with the action that
\* this.isConnected asks for
ToggleConnection ==
    /\ Cardinality(connection.pending) < MaxConnects
    /\ connection' =
          [connection EXCEPT !.pending = @ \cup
              {[id |-> NewConnectId,
                action |-> IF connection.isConnected THEN "disconnect" ELSE "connect"]}]
    /\ UNCHANGED connectVars

\* The reply is read: this.isConnected = result.connected when response.ok,
\* false otherwise; then updateStatus()
ConnectReply(c, ok, connected) ==
    /\ c \in connection.pending
    /\ connection' = [UpdateStatus(ok /\ connected) EXCEPT !.pending = @ \ {c}]
    /\ UNCHANGED connectVars

\* fetch or response.json() rejects.  The catch block starts with
\* `this.isConnected = False`: False is not defined, the read throws a
\* ReferenceError out of toggleConnection, and neither the assignment nor
\* showNotification nor updateStatus() runs.
ConnectError(c) ==
    /\ c \in connection.pending
    /\ connection' = [connection EXCEPT !.pending = @ \ {c}]
    /\ UNCHANGED connectVars

ConnectAccepted == \E c \in connection.pending, connected \in BOOLEAN : ConnectReply(c, TRUE, connected)

ConnectRefused == \E c \in connection.pending, connected \in BOOLEAN : ConnectReply(c, FALSE, connected)

ConnectFails == \E c \in connection.pending : ConnectError(c)

NextConnect ==
    \/ ToggleConnection
    \/ ConnectAccepted
    \/ ConnectRefused
    \/ ConnectFails

SpecConnect == Init /\ [][NextConnect]_vars

\* ------------------------------------------------------------ construction
\* this.settings = {}: enable_rest_api is undefined (falsy) and so is
\* edc_serial_number ('VFI' + undefined)
EmptySettings == [enable_rest_api |-> FALSE, edc_serial_number |-> "undefined"]

\* this.fetchHistory() as the constructor calls it, right after
\* this.loadSettings() has started its fetch
ConstructorFetchHistory == IF mode # "rest" THEN {} ELSE {[n |-> 0, age |-> 0]}

\* The page when the constructor returns: GET /api/settings is awaited
InitConstructed ==
    /\ settings = EmptySettings
    /\ connection = Offline
    /\ transactionHistory = <<>>
    /\ mode = "native"
    /\ loading = {"GET /api/settings"}
    /\ historyFetch = ConstructorFetchHistory
    /\ form = EmptyForm
    /\ building = {}
    /\ earlier = {}
    /\ reqData = NoReqData
    /\ saving = {}
    /\ requestArea = "" /\ requestType = "undefined"
    /\ sendBtnDisabled = FALSE
    /\ responseArea = NoResponse
    /\ session = FreeSession
    /\ inflight = {}
    /\ reading = {}
    /\ endpoint \in Endpoints
    /\ process = {}

\* loadSettings after its await: if (response.ok) { this.settings = await
\* response.json(); ...; this.mode = ... }; nothing otherwise, and nothing
\* when fetch or response.json() rejects (ok = FALSE stands for both)
LoadReply(l, ok, s) ==
    /\ l \in loading
    /\ loading' = loading \ {l}
    /\ settings' = IF ok THEN s ELSE settings
    /\ mode' = IF ok THEN ModeOf(s) ELSE mode
    /\ UNCHANGED <<requestArea, requestType, endpoint, saving, form, building,
                   connection, reqData, earlier, nativeVars, sendBtnDisabled,
                   responseArea, session, inflight, reading>>

LoadReplyArrives == \E l \in loading, s \in SettingsForms : LoadReply(l, TRUE, s)

LoadFails == \E l \in loading, s \in SettingsForms : LoadReply(l, FALSE, s)

SaveAccepted == \E s \in saving : SettingsReply(s, TRUE)

SaveFails == \E s \in saving : SettingsReply(s, FALSE)

NextConstructed ==
    \/ LoadReplyArrives
    \/ LoadFails
    \/ \E posted \in SettingsForms : SaveSettings(posted)
    \/ SaveAccepted
    \/ SaveFails

SpecConstructed == InitConstructed /\ [][NextConstructed]_vars

\* ------------------------------------------------- the request being built
\* The page in native mode with nothing built yet: the constructor does not
\* call updateRequest, the request area is filled by the first form event.
InitBuild ==
    /\ Init
    /\ requestArea = ""
    /\ endpoint.kind = "any"
    /\ ~settings.enable_rest_api
    /\ settings.edc_serial_number = ""

TypeChanges == \E type \in TransactionTypes : TypeChange(type)

AmountTyped == \E amount \in {"", "10.00"} : AmountInput(amount)

InvoiceTyped == \E invoiceNo \in InvoiceInputs : InvoiceInput(invoiceNo)

BuildReplyArrives == \E b \in building, type \in {"json", "hex"} : BuildReply(b, type)

BuildFails == \E b \in building : BuildError(b)

\* Send reads the form: the type, the amount and the invoice number typed
SendForm == SendNative(form.transaction_type, form.amount, form.invoiceNo)

\* The form events, the replies of /api/build_request (which answers every
\* request here) and native transactions sent from the form.
NextBuild ==
    \/ TypeChanges
    \/ AmountTyped
    \/ InvoiceTyped
    \/ AmountBlur
    \/ BuildReplyArrives
    \/ SendForm
    \/ ProcessReplyArrives
    \/ ProcessFails

SpecBuild == InitBuild /\ [][NextBuild]_vars

\* ------------------------------------------------ formatAmount on its inputs
\* The texts of at most n characters, typed with five keys
RECURSIVE Texts(_)
Texts(n) ==
    IF n = 0 THEN {""}
    ELSE Texts(n - 1)
         \cup {text \o c : text \in Texts(n - 1), c \in {"0", "1", ".", "-", "a"}}

\* What the amount field may hold when it loses the focus: any short text,
\* or a 1 followed by zeros
AmountTexts == Texts(MaxLen) \cup {"1" \o Zeros(k) : k \in 0..MaxZeros}

InitFormat ==
    /\ form \in {[EmptyForm EXCEPT !.amount = amount] : amount \in AmountTexts}
    /\ InitPage
    /\ requestArea = ""
    /\ endpoint.kind = "any"
    /\ ~settings.enable_rest_api
    /\ settings.edc_serial_number = ""

NextFormat ==
    \/ AmountBlur
    \/ BuildReplyArrives
    \/ BuildFails

SpecFormat == InitFormat /\ [][NextFormat]_vars

\* ------------------------------------------------------------------ claims
\* The closure has surfaced a terminal outcome of its poll loop.
Terminal == session.outcome \in {"success", "rejected", "timeout"}

\* C1: a transaction whose submit call returned 2xx surfaces at most one
\* terminal outcome through displayResponse.
C1_AtMostOneOutcome == session.trxId # 0 => session.shown <= 1

\* C2: no two poll requests of one transaction are awaiting their reply at
\* the same time.
C2_NoOverlappingPolls == Cardinality(inflight) <= 1

\* C3: once more than 60 seconds have elapsed since the session was created,
\* the only outcome the transaction surfaces is the poll timeout.
C3_HardDeadline ==
    [][(session'.shown = session.shown + 1 /\ session.elapsed > TIMEOUT)
        => session'.outcome = "timeout"]_vars

\* C4: the poll timeout is never surfaced before 60 seconds have elapsed since
\* the session was created.
C4_TimeoutNotEarly == session.outcome = "timeout" => session.elapsed >= TIMEOUT

C4_Witness ==
    /\ session.outcome = "timeout"
    /\ responseArea.value = PollingTimeout
    /\ session.issued > 0

\* C5: against an endpoint that answers 503 to every poll, a transaction that
\* started polling eventually surfaces the poll timeout, with its timer
\* cancelled and the Send button enabled again.
C5_EventuallyTimeout ==
    (session.pc = "polling") ~>
        (/\ session.outcome = "timeout"
         /\ responseArea.value = PollingTimeout
         /\ session.pc = "ended"
         /\ ~sendBtnDisabled)

C5_Witness ==
    /\ endpoint.kind = "always503"
    /\ session.outcome = "timeout"
    /\ session.pc = "ended"
    /\ ~sendBtnDisabled

\* C6: against an endpoint that answers 503 to the first N polls and 200
\* afterwards, success is surfaced when exactly N+1 polls have been issued.
C6_SuccessAfterNPlus1 ==
    (endpoint.kind = "first503" /\ session.outcome = "success")
        => session.issued = endpoint.n + 1

\* C7: when the body of a final poll reply has been read, a 2xx reply surfaces
\* its parsed body as a success result, any other reply surfaces an error with
\* that reply's own status code and body, and the poll timer is stopped.
C7_OwnStatusAndBody ==
    [][\A c \in reading :
        (c \notin reading' /\ session'.shown = session.shown + 1)
        => /\ session'.pc = "ended"
           /\ responseArea' = IF Ok(c.status)
                THEN DisplayResponse(Result(Body(c.n)), "success")
                ELSE DisplayResponse(ErrorResponse(ErrorText(c.status, Body(c.n))), "error")]_vars

C9_NoPollAfterTerminal ==
    /\ [](Terminal => session.pc = "ended")
    /\ [][Terminal =>
            /\ session'.issued <= session.issued
            /\ \A r \in inflight' : r \in inflight \/ r.age > 0]_vars

C9_Witness ==
    /\ session.outcome = "success"
    /\ session.issued >= 2
    /\ inflight # {}

\* C10: after a non-2xx submit reply the error with that status code and body
\* is shown, no trxId was extracted, no timer runs and no poll was issued.
C10_SubmitRejected ==
    (session.outcome = "failed" /\ session.res # 0) =>
        /\ responseArea =
              DisplayResponse(ErrorResponse(ErrorText(session.res, Body(0))), "error")
        /\ ~Ok(session.res)
        /\ session.trxId = 0
        /\ session.pc = "ended"
        /\ session.issued = 0
        /\ inflight = {}
        /\ ~sendBtnDisabled

C10_Witness ==
    /\ session.outcome = "failed"
    /\ session.res = 401
    /\ responseArea.value = ErrorText(401, Body(0))

\* C11: every sendTransaction call that passes validation eventually resolves:
\* the loading state it set is eventually cleared (the Send button is enabled
\* again), also when a poll request fails or a poll reply body cannot be read.
C11_EventuallyResolves == sendBtnDisabled ~> ~sendBtnDisabled

\* C12: sendTransaction issues a request to /api/transaction/cimb or to
\* /api/process only if the amount typed is a number greater than zero.
C12_AmountPositive ==
    [][\A amount \in AmountInputs :
         (\/ SendCloud(amount) /\ session'.pc = "submit"
          \/ \E transaction_type \in TransactionTypes, invoiceNo \in InvoiceInputs :
                SendNative(transaction_type, amount, invoiceNo))
         => Positive(amount)]_vars

\* C13: no /api/process request is issued for a transaction type that requires
\* an invoice number when the invoice number is missing.
C13_InvoiceRequired ==
    \A p \in process : RequiresInvoice(p.transaction_type) => p.invoiceNo # "null"

\* C14: no request carrying a credential derived from an empty serial number
\* is issued to /api/transaction/cimb.
C14_MissingSerialNumber ==
    session.pc = "submit" => session.auth # Auth("")

\* C15: a step that surfaces a terminal failure (the request text is not JSON,
\* submit rejected or failed, poll timeout, poll rejected, /api/process failed)
\* leaves the history as it is and starts no history fetch.
C15_FailureKeepsHistory ==
    [][(\/ \E amount \in AmountInputs : SendCloud(amount) /\ ~IsJson(requestArea)
        \/ \E status \in SubmitStatuses : ~Ok(status) /\ SubmitReply(status)
        \/ SubmitError
        \/ Tick /\ Expired(session.elapsed)
        \/ \E c \in reading : ~Ok(c.status) /\ PollBody(c)
        \/ ProcessFails)
       => UNCHANGED <<transactionHistory, historyFetch>>]_vars

\* A native transaction failed after an earlier one had been recorded.
C15_Witness ==
    /\ responseArea.className = "form-control response-error"
    /\ responseArea.value = Text("result.error", 0, 0)
    /\ Len(transactionHistory) = 1
    /\ process = {}

\* The older list is what follows the newer records in the newer list.
IsSuffix(older, newer) ==
    /\ Len(older) <= Len(newer)
    /\ SubSeq(newer, Len(newer) - Len(older) + 1, Len(newer)) = older

\* C16: the history is append-only and newest-first: every step leaves the
\* records it held in place, unmodified and in order, behind any new ones.
C16_AppendOnlyNewestFirst == [][IsSuffix(transactionHistory, transactionHistory')]_vars

\* C17: a native transaction completing with a 2xx reply puts exactly one
\* record, with its type and amount, in front of the history as it was.
C17_OneRecordInFront ==
    [][\A p \in process, result \in ProcessResults :
         ProcessReply(p, result) =>
            /\ Len(transactionHistory') = Len(transactionHistory) + 1
            /\ Head(transactionHistory').transaction_type = p.transaction_type
            /\ Head(transactionHistory').amount = p.amount
            /\ Tail(transactionHistory') = transactionHistory]_vars

\* A second native transaction was recorded in front of the first.
C17_Witness ==
    /\ Len(transactionHistory) = 2
    /\ transactionHistory[1].transaction_type = "VOID"
    /\ transactionHistory[2].transaction_type = "SALE"
    /\ process = {}
    /\ responseArea.className = "form-control response-success"

\* C18: the submit request carries Base64(username:VFI + the serial number in
\* the settings at the click), and every poll request of the transaction
\* carries that same credential, whatever is saved meanwhile.
C18_SameCredential ==
    /\ [][(session'.pc = "submit" /\ session' # session)
            => session'.auth = Auth(settings.edc_serial_number)]_vars
    /\ [][session.pc \in {"submit", "polling"} => session'.auth = session.auth]_vars
    /\ [](\A r \in inflight : r.auth = session.auth)

\* A poll is in flight after the serial number in the settings was changed.
C18_Witness ==
    /\ session.pc = "polling"
    /\ \E r \in inflight :
          /\ r.auth = session.auth
          /\ r.auth # Auth(settings.edc_serial_number)
          /\ r.n >= 2

\* C19: at most one /api/process request is awaiting its reply at a time.
C19_OneLocalInvocation == Cardinality(process) <= 1

\* The calls of a whole invocation, in order.
LocalCalls == <<"encode", "send", "receive", "decode">>

\* C20: the calls made for a local transaction are, in this order, encode,
\* send, receive, decode (each at most once, none before the one it follows),
\* and an invocation whose send failed is Failed with no call to receive.
C20_LocalOrder ==
    \A p \in process :
        /\ Len(p.calls) <= Len(LocalCalls)
        /\ p.calls = SubSeq(LocalCalls, 1, Len(p.calls))
        /\ p.error = "TransportError" =>
              p.state = "Failed" /\ p.calls = <<"encode", "send">>
        /\ p.state = "Decoded" => p.calls = LocalCalls

\* An invocation failed at send.
C20_Witness ==
    \E p \in process :
        /\ p.error = "TransportError"
        /\ p.state = "Failed"
        /\ p.calls[Len(p.calls)] = "send"

\* C21: a 2xx /api/process reply is surfaced as a result showing its payload,
\* whatever its response code, and a failed exchange as an error: the two are
\* told apart by the class and the "ERROR: " prefix of the response area.
C21_DeclinedIsResult ==
    [][/\ \A p \in process, result \in ProcessResults :
            ProcessReply(p, result) =>
                /\ responseArea'.className = "form-control response-success"
                /\ responseArea'.prefix = ""
                /\ responseArea'.value.body = result.body
       /\ ProcessFails =>
                /\ responseArea'.className = "form-control response-error"
                /\ responseArea'.prefix = "ERROR: "]_vars

\* A declined transaction is shown as a result.
C21_Witness ==
    /\ mode = "native"
    /\ process = {}
    /\ responseArea.className = "form-control response-success"
    /\ responseArea.value.body = 5
    /\ Len(transactionHistory) = 1

\* The body sent with a native transaction: JSON.stringify({transaction_type,
\* amount, invoiceNo})
ProcessBody(p) ==
    [transaction_type |-> p.transaction_type, amount |-> p.amount, invoiceNo |-> p.invoiceNo]

\* C22: the request bodies of /api/build_request and /api/process carry exactly
\* the keys transactionType, amount and invoiceNo.
C22_WireKeys ==
    /\ \A b \in building : DOMAIN b.body = {"transactionType", "amount", "invoiceNo"}
    /\ \A p \in process : DOMAIN ProcessBody(p) = {"transactionType", "amount", "invoiceNo"}

\* C22 as the script has it: the request bodies of /api/build_request and
\* /api/process carry exactly the keys transaction_type, amount and invoiceNo.
C22_SnakeCaseKeys ==
    /\ \A b \in building : DOMAIN b.body = {"transaction_type", "amount", "invoiceNo"}
    /\ \A p \in process : DOMAIN ProcessBody(p) = {"transaction_type", "amount", "invoiceNo"}

C22_Witness == building # {} /\ process # {}

\* C24: formatAmount is idempotent: formatting the amount the field holds after
\* a formatAmount leaves it as it is.
C24_Idempotent == FormatAmount(FormatAmount(form.amount)) = FormatAmount(form.amount)

\* C25: once every /api/build_request call has been answered, the request area
\* holds the request built for the type, the amount and the invoice number the
\* form holds now, in whatever order the replies arrived.
C25_RequestOfCurrentInputs ==
    (building = {} /\ requestArea # "")
        => requestArea = Request(BuildBody(form), requestType)

\* C23: an encoded request is exactly 38 bytes, 1 type byte + 12 amount digits
\* + 6 invoice digits + 19 card bytes, holding the whole amount (in the
\* smallest currency unit) and the whole invoice number; an amount or an
\* invoice number with more digits than its field is an encoding error and no
\* buffer, never a longer or a truncated one.
C23_FixedWidthOrError ==
    reqData # NoReqData =>
        /\ reqData.error = "" =>
              /\ Len(reqData.bytes) = 38
              /\ Len(reqData.bytes) = 1 + AmountWidth + InvoiceWidth + CardWidth
              /\ Canonical(SubSeq(reqData.bytes, 2, 1 + AmountWidth)) = MinorUnits(form.amount)
              /\ Canonical(SubSeq(reqData.bytes, 2 + AmountWidth, 1 + AmountWidth + InvoiceWidth))
                     = InvoiceDigits(form.invoiceNo)
        /\ reqData.error # "" => reqData.bytes = ""
        /\ (\/ Len(MinorUnits(form.amount)) > AmountWidth
            \/ Len(InvoiceDigits(form.invoiceNo)) > InvoiceWidth)
              => reqData.error \in {"FieldOverflow", "InvalidTransactionType"}
        /\ form = [transaction_type |-> "SALE", amount |-> "10.00", invoiceNo |-> ""]
              => reqData.bytes = "1" \o "000000001000" \o "000000" \o Spaces(CardWidth)

C23_Witness ==
    /\ reqData.error = "FieldOverflow"
    /\ Len(MinorUnits(form.amount)) = AmountWidth + 1
    /\ form.invoiceNo = "999999"

\* C26: whenever a toggleConnection call ends in failure (a non-2xx reply of
\* /api/connect or a network exception), isConnected is false afterwards, the
\* indicator shows OFFLINE and the button reads Open, whatever the connection
\* state was before.
C26_FailureGoesOffline ==
    [][(ConnectRefused \/ ConnectFails) =>
          /\ ~connection'.isConnected
          /\ connection'.statusText = "OFFLINE"
          /\ connection'.openBtn = "Open"]_vars

\* C27: between event handlers mode is 'rest' exactly when
\* settings.enable_rest_api is truthy and 'native' otherwise, after any
\* sequence of settings loads and saves; a load or a save that fails changes
\* neither settings nor mode.
C27_ModeFollowsSettings ==
    /\ [](mode = (IF settings.enable_rest_api THEN "rest" ELSE "native"))
    /\ [][(LoadFails \/ SaveFails) => UNCHANGED <<settings, mode>>]_vars

C27_Witness ==
    /\ mode = "rest" /\ settings.edc_serial_number = "E1"
    /\ loading = {} /\ saving = {[enable_rest_api |-> FALSE, edc_serial_number |-> ""]}

\* C29: when the saved settings enable REST mode, the transaction history has
\* been loaded from GET /api/history once the constructor's loadSettings and
\* fetchHistory calls have completed: at the step that completes loadSettings
\* with such settings the history is there or its fetch is under way.
C29_HistoryLoadedAtInit ==
    [][\A l \in loading, s \in SettingsForms :
          (LoadReply(l, TRUE, s) /\ s.enable_rest_api)
              => (historyFetch' # {} \/ transactionHistory' # <<>>)]_vars

\* C28: at any time at most one cloud poll interval timer is active: a new
\* poll timer is never started while the timer of an earlier transaction is
\* still running.
C28_OnePollTimer == ActiveTimers <= 1
====
